---------------------------- MODULE Spec2Model ----------------------------
(***************************************************************************)
(* Rate limiter (src/lib/rate-limit.ts) and the request handlers of the    *)
(* chat application (chat POST, conversation DELETE, upload POST, profile  *)
(* and password PUT), as state machines over the Prisma store.             *)
(*                                                                         *)
(* Time is a discrete clock read by `new Date()`.  One clock unit stands   *)
(* for an arbitrary number of milliseconds; RATE_LIMIT_WINDOW and          *)
(* MAX_REQUESTS are scaled down (15 * 60 * 1000 ms and 100 in the source)  *)
(* so that whole windows, their boundary instant and their expiry fit in   *)
(* the explored horizon.  Every formula below is stated in terms of the    *)
(* two names, never of their values.                                       *)
(***************************************************************************)
EXTENDS Integers, Sequences, FiniteSets, TLC

\* ------------------------------------------------------------------ bounds
MaxTime == 3              \* the clock runs over 0..MaxTime
NumProcs == 2             \* request slots that may be in flight together
RATE_LIMIT_WINDOW == 2    \* src/lib/rate-limit.ts:6  (15 * 60 * 1000 ms), scaled
MAX_REQUESTS == 2         \* src/lib/rate-limit.ts:7  (100), scaled

MaxCalls == 3             \* HTTP requests started in one run of the chat workload
MaxDocs == 2              \* documents that can be uploaded
MaxConvs == 2             \* conversation ids that can be allocated
TITLE_LEN == 50           \* src/unnamed/part_002:34  message.substring(0, 50)

Procs == 1 .. NumProcs
Times == 0 .. MaxTime

\* ------------------------------------------------------ identities, inputs
NoUser == "nobody"                       \* getServerSession() gave no user id
Users == {"u1", "u2"}
Sessions == Users \cup {NoUser}
Endpoints == {"chat", "upload", "profile", "password"}   \* the `endpoint` argument
Keys == Users \X Endpoints               \* @@unique userId_endpoint

\* a RateLimit row; NoRow is what findUnique returns for a missing key (null)
NoRow == [present |-> FALSE, count |-> 0, windowStart |-> 0]
Row(c, w) == [present |-> TRUE, count |-> c, windowStart |-> w]

VARIABLES
  clock,        \* the wall clock, as new Date() reads it
  active,       \* the request slots in use: {1} = calls one at a time
  callers,      \* the (user, endpoint) pairs checkRateLimit is called for in this workload
  rateLimits,   \* prisma.rateLimit: Keys -> row
  rl,           \* per slot: the checkRateLimit call it is running
  admitLog,     \* history: Keys -> (time -> number of calls with that `now` that returned true)
  conversations,\* prisma.conversation: id -> row
  messages,     \* prisma.message, in creation order
  nextConvId,   \* the next fresh conversation id
  calls,        \* HTTP requests started so far
  ch,           \* per slot: the HTTP request it is handling
  last,         \* history: the last response sent and what its call did
  documents,    \* prisma.document, in creation order
  files,        \* the uploads directory
  userRows      \* prisma.user: name and password hash

rlVars == <<rateLimits, rl, admitLog>>
chatVars == <<conversations, messages, nextConvId, calls, ch, last>>
apiVars == <<documents, files, userRows>>
vars == <<clock, active, callers, rateLimits, rl, admitLog,
          conversations, messages, nextConvId, calls, ch, last, documents, files, userRows>>

\* ------------------------------------------------------------ rate limiter
IdleCall ==
  [pc |-> "idle", userId |-> NoUser, endpoint |-> "chat", now |-> 0,
   row |-> NoRow, branch |-> "none", result |-> "none", reads |-> 0, writes |-> 0]

\* line 12: if (!session?.user?.id) return false
HasIdentity(s) == s # NoUser

\* a window that already counts as expired at the instant its length has elapsed
WindowExpiredInclusive(row, now) == row.windowStart <= now - RATE_LIMIT_WINDOW

\* a window that counts as expired as soon as the clock has moved
WindowExpiredEarly(row, now) == row.windowStart < now

\* lines 17-18, 41: windowStart = now - RATE_LIMIT_WINDOW; rateLimit.windowStart < windowStart
WindowExpired(row, now) == row.windowStart < now - RATE_LIMIT_WINDOW

\* an off-by-one limit test
LimitReachedLate(row) == row.count > MAX_REQUESTS

\* line 57: if (rateLimit.count >= MAX_REQUESTS) return false
LimitReached(row) == row.count >= MAX_REQUESTS

\* lines 29-75: which branch the call takes on the row it read
Branch(row, now) ==
  IF ~row.present THEN "create"
  ELSE IF WindowExpired(row, now) THEN "reset"
  ELSE IF LimitReached(row) THEN "deny"
  ELSE "increment"

Logged(log, k, t) == [log EXCEPT ![k][t] = @ + 1]

\* a limiter that fails open: a call without an identity is admitted
RlStartFailOpen(p, s, e) ==
  /\ p \in active
  /\ s = NoUser \/ <<s, e>> \in callers
  /\ rl[p].pc \in {"idle", "done"}
  /\ IF ~HasIdentity(s)
       THEN rl' = [rl EXCEPT ![p] = [IdleCall EXCEPT !.pc = "done", !.endpoint = e,
                                                      !.result = "true"]]
       ELSE rl' = [rl EXCEPT ![p] = [IdleCall EXCEPT !.pc = "find", !.userId = s,
                                                      !.endpoint = e, !.now = clock]]
  /\ UNCHANGED <<clock, active, callers, rateLimits, admitLog, chatVars, apiVars>>

\* lines 9-18: the call starts; without an identity it returns false at once
RlStart(p, s, e) ==
  /\ p \in active
  /\ s = NoUser \/ <<s, e>> \in callers
  /\ rl[p].pc \in {"idle", "done"}
  /\ IF ~HasIdentity(s)
       THEN rl' = [rl EXCEPT ![p] = [IdleCall EXCEPT !.pc = "done", !.endpoint = e,
                                                      !.result = "false"]]
       ELSE rl' = [rl EXCEPT ![p] = [IdleCall EXCEPT !.pc = "find", !.userId = s,
                                                      !.endpoint = e, !.now = clock]]
  /\ UNCHANGED <<clock, active, callers, rateLimits, admitLog, chatVars, apiVars>>

\* a limiter whose denial restarts the window
RlFindExtends(p) ==
  /\ p \in active
  /\ rl[p].pc = "find"
  /\ LET k == <<rl[p].userId, rl[p].endpoint>>
         row == rateLimits[k]
         b == Branch(row, rl[p].now)
     IN /\ rl' = [rl EXCEPT ![p].row = row, ![p].branch = b, ![p].reads = @ + 1,
                            ![p].pc = IF b = "deny" THEN "done" ELSE "write",
                            ![p].result = IF b = "deny" THEN "false" ELSE "none"]
        /\ rateLimits' = IF b = "deny"
                           THEN [rateLimits EXCEPT ![k] = Row(row.count, rl[p].now)]
                           ELSE rateLimits
  /\ UNCHANGED <<clock, active, callers, admitLog, chatVars, apiVars>>

\* a limiter that looks up one counter per subject, whatever the endpoint
RlFindBySubject(p) ==
  /\ p \in active
  /\ rl[p].pc = "find"
  /\ LET k == <<rl[p].userId, "chat">>
         row == rateLimits[k]
         b == Branch(row, rl[p].now)
     IN rl' = [rl EXCEPT ![p].row = row, ![p].branch = b, ![p].reads = @ + 1,
                         ![p].pc = IF b = "deny" THEN "done" ELSE "write",
                         ![p].result = IF b = "deny" THEN "false" ELSE "none"]
  /\ UNCHANGED <<clock, active, callers, rateLimits, admitLog, chatVars, apiVars>>

\* lines 20-59: findUnique answers; the code picks its branch on that row and,
\* on the deny branch, returns false without another store call
RlFind(p) ==
  /\ p \in active
  /\ rl[p].pc = "find"
  /\ LET k == <<rl[p].userId, rl[p].endpoint>>
         row == rateLimits[k]
         b == Branch(row, rl[p].now)
     IN rl' = [rl EXCEPT ![p].row = row, ![p].branch = b, ![p].reads = @ + 1,
                         ![p].pc = IF b = "deny" THEN "done" ELSE "write",
                         ![p].result = IF b = "deny" THEN "false" ELSE "none"]
  /\ UNCHANGED <<clock, active, callers, rateLimits, admitLog, chatVars, apiVars>>

\* lines 30-38, 42-54, 61-75: the create / update reaches the store.
\* create on a key that exists by now violates the unique constraint and the
\* call throws; update { count: { increment: 1 } } adds to the row as stored.
RlWrite(p) ==
  /\ p \in active
  /\ rl[p].pc = "write"
  /\ LET k == <<rl[p].userId, rl[p].endpoint>>
         cur == rateLimits[k]
     IN CASE rl[p].branch = "create" /\ cur.present ->
               /\ rl' = [rl EXCEPT ![p].pc = "done", ![p].result = "throw"]
               /\ UNCHANGED <<rateLimits, admitLog>>
          [] rl[p].branch = "create" /\ ~cur.present ->
               /\ rateLimits' = [rateLimits EXCEPT ![k] = Row(1, rl[p].now)]
               /\ rl' = [rl EXCEPT ![p].pc = "done", ![p].result = "true", ![p].writes = @ + 1]
               /\ admitLog' = Logged(admitLog, k, rl[p].now)
          [] rl[p].branch = "reset" ->
               /\ rateLimits' = [rateLimits EXCEPT ![k] = Row(1, rl[p].now)]
               /\ rl' = [rl EXCEPT ![p].pc = "done", ![p].result = "true", ![p].writes = @ + 1]
               /\ admitLog' = Logged(admitLog, k, rl[p].now)
          [] OTHER ->
               /\ rateLimits' = [rateLimits EXCEPT ![k] = Row(cur.count + 1, cur.windowStart)]
               /\ rl' = [rl EXCEPT ![p].pc = "done", ![p].result = "true", ![p].writes = @ + 1]
               /\ admitLog' = Logged(admitLog, k, rl[p].now)
  /\ UNCHANGED <<clock, active, callers, chatVars, apiVars>>

\* the wall clock advances
Tick ==
  /\ clock < MaxTime
  /\ clock' = clock + 1
  /\ UNCHANGED <<active, callers, rlVars, apiVars, chatVars, apiVars>>

\* ---------------------------------------------------------- chat, the store
ConvIds == 1 .. MaxConvs
NoId == 0                                \* no conversationId in the request / no row
NoConv == [exists |-> FALSE, userId |-> NoUser, title |-> <<>>, updatedAt |-> 0]

\* request bodies: `message` as a sequence of characters ("" is falsy)
Bodies == {<<>>, <<"h", "i">>}
\* a message one character longer than the title keeps
LongBody == [i \in 1 .. TITLE_LEN + 1 |-> IF i <= TITLE_LEN THEN "a" ELSE "z"]
LongBodies == Bodies \cup {LongBody}

\* src/unnamed/part_002:60, the fixed apology of the catch block
APOLOGY == "I apologize, but I'm having trouble processing your request right now. Please try again later."
Fallback == [content |-> APOLOGY, hasSources |-> TRUE, sources |-> <<>>]

\* response.data of the backend, for the outcomes of axios.post: "ok" is a
\* well-formed answer, "fail" a rejected promise (network error, non-2xx status),
\* "malformed" a 2xx answer whose body has neither content nor sources
BackendOutcomes == {"ok", "fail"}
PayloadOutcomes == BackendOutcomes \cup {"malformed"}
NoContent == "undefined"                 \* response.data.content of a body without it
BackendData(o) ==
  [content |-> IF o = "malformed" THEN NoContent ELSE "Refunds are allowed within 30 days.",
   hasSources |-> o = "ok",
   sources |-> IF o = "ok" THEN <<"policy.pdf">> ELSE <<>>]

\* how the call of axios.post ended, as the history records it
Settled(o) == IF o = "fail" THEN "failed" ELSE o

\* lines 50-63: try { assistantResponse = response.data } catch { the fallback }
AssistantResponse(o) == IF o = "fail" THEN Fallback ELSE BackendData(o)

\* line 70: assistantResponse.sources || []
SourcesOrEmpty(r) == IF r.hasSources THEN r.sources ELSE <<>>

\* a title that keeps the whole message
TitleWhole(m) == m

\* line 34: message.substring(0, 50)
Title(m) == SubSeq(m, 1, IF Len(m) < TITLE_LEN THEN Len(m) ELSE TITLE_LEN)

NoMessage == [content |-> "", sources |-> <<>>]

\* a request in flight: the handler's locals, and (history) what it has done so far
IdleReq ==
  [op |-> "none", pc |-> "idle", user |-> NoUser, message |-> <<>>, conv |-> NoId,
   startAt |-> 0, touchAt |-> 0, body |-> NoMessage,
   target |-> "none", effects |-> <<>>, before |-> -1, backend |-> "none", limited |-> FALSE]

\* the last response sent, with the history of its call
NoLast ==
  [op |-> "none", status |-> 0, user |-> NoUser, conv |-> NoId, body |-> NoMessage,
   target |-> "none", effects |-> <<>>, before |-> -1, after |-> -1, backend |-> "none",
   limited |-> FALSE, removed |-> 0]

Response(r, st, after) ==
  [op |-> r.op, status |-> st, user |-> r.user, conv |-> r.conv,
   body |-> IF st = 200 THEN r.body ELSE NoMessage,
   target |-> r.target, effects |-> r.effects, before |-> r.before, after |-> after,
   backend |-> r.backend, limited |-> r.limited, removed |-> 0]

\* a Message row
Msg(c, role, content, sources) ==
  [conversationId |-> c, role |-> role, content |-> content, sources |-> sources]

\* the Message rows reference their Conversation: a create naming a missing
\* conversation is refused by the store
ConversationExists(id) == id \in ConvIds /\ conversations[id].exists

\* Message.content is a required column: a create without it is refused
ContentAccepted(c) == c # NoContent

\* deleting a Conversation removes its Messages with it
CascadeDelete(msgs, id) == SelectSeq(msgs, LAMBDA m : m.conversationId # id)

\* requests take the lowest free slot (the slots are interchangeable)
FreeSlot(p) == /\ p \in active
               /\ ch[p].pc = "idle"
               /\ \A q \in active : q < p => ch[q].pc # "idle"

\* an ownership test that lets a missing row through
OwnsUnlessForeign(s, cid) == ~ConversationExists(cid) \/ conversations[cid].userId = s

\* line 27: conversation?.userId !== session.user.id  (a missing row has no userId)
Owns(s, cid) == ConversationExists(cid) /\ conversations[cid].userId = s

\* what the conversationId of a request names, for the caller s
Target(s, cid) ==
  IF cid = NoId THEN "new"
  ELSE IF ~ConversationExists(cid) THEN "missing"
  ELSE IF conversations[cid].userId # s THEN "foreign"
  ELSE "own"

\* a handler that opens the new Conversation before it validates the body
ChatStartEager(p, s, cid, m) ==
  /\ FreeSlot(p)
  /\ calls < MaxCalls
  /\ calls' = calls + 1
  /\ LET r == [IdleReq EXCEPT !.op = "chat", !.user = s,
                              !.limited = /\ HasIdentity(s)
                                          /\ Branch(rateLimits[<<s, "chat">>], clock) = "deny"]
         q == [r EXCEPT !.message = m, !.target = Target(s, cid)]
         row == [exists |-> TRUE, userId |-> s, title |-> Title(m), updatedAt |-> clock]
     IN IF ~HasIdentity(s)
          THEN /\ last' = Response(r, 401, -1)
               /\ UNCHANGED <<ch, conversations, nextConvId>>
        ELSE IF cid # NoId
          THEN /\ IF m # <<>> /\ Owns(s, cid)
                    THEN /\ ch' = [ch EXCEPT ![p] = [q EXCEPT !.pc = "userMsg", !.conv = cid,
                                                     !.startAt = clock,
                                                     !.before = conversations[cid].updatedAt]]
                         /\ UNCHANGED last
                    ELSE /\ last' = Response(q, IF m = <<>> THEN 400 ELSE 403, -1)
                         /\ UNCHANGED ch
               /\ UNCHANGED <<conversations, nextConvId>>
        ELSE /\ nextConvId <= MaxConvs
             /\ conversations' = [conversations EXCEPT ![nextConvId] = row]
             /\ nextConvId' = nextConvId + 1
             /\ IF m = <<>>
                  THEN /\ last' = Response(q, 400, -1)
                       /\ UNCHANGED ch
                  ELSE /\ ch' = [ch EXCEPT ![p] = [q EXCEPT !.pc = "userMsg", !.conv = nextConvId,
                                                            !.startAt = clock,
                                                            !.effects = <<"conversation">>]]
                       /\ UNCHANGED last
  /\ UNCHANGED <<clock, active, callers, rlVars, apiVars, messages>>

\* lines 9-37: session, body, and the conversation lookup or creation
ChatStart(p, s, cid, m) ==
  /\ FreeSlot(p)
  /\ calls < MaxCalls
  /\ calls' = calls + 1
  /\ LET r == [IdleReq EXCEPT !.op = "chat", !.user = s,
                              !.limited = /\ HasIdentity(s)
                                          /\ Branch(rateLimits[<<s, "chat">>], clock) = "deny"]
         q == [r EXCEPT !.message = m, !.target = Target(s, cid)]
     IN IF ~HasIdentity(s)
          THEN /\ last' = Response(r, 401, -1)
               /\ UNCHANGED <<ch, conversations, nextConvId>>
        ELSE IF m = <<>>
          THEN /\ last' = Response(q, 400, -1)
               /\ UNCHANGED <<ch, conversations, nextConvId>>
        ELSE IF cid # NoId
          THEN /\ IF Owns(s, cid)
                    THEN /\ ch' = [ch EXCEPT ![p] = [q EXCEPT !.pc = "userMsg", !.conv = cid,
                                                     !.startAt = clock,
                                                     !.before = conversations[cid].updatedAt]]
                         /\ UNCHANGED last
                    ELSE /\ last' = Response(q, 403, -1)
                         /\ UNCHANGED ch
               /\ UNCHANGED <<conversations, nextConvId>>
        ELSE /\ nextConvId <= MaxConvs
             /\ conversations' = [conversations EXCEPT ![nextConvId] =
                                    [exists |-> TRUE, userId |-> s, title |-> Title(m),
                                     updatedAt |-> clock]]
             /\ nextConvId' = nextConvId + 1
             /\ ch' = [ch EXCEPT ![p] = [q EXCEPT !.pc = "userMsg", !.conv = nextConvId,
                                                  !.startAt = clock,
                                                  !.effects = <<"conversation">>]]
             /\ UNCHANGED last
  /\ UNCHANGED <<clock, active, callers, rlVars, apiVars, messages>>

\* the catch block of lines 83-89: a throw ends the request with 500
Throw(p) ==
  /\ last' = Response(ch[p], 500, -1)
  /\ ch' = [ch EXCEPT ![p] = IdleReq]

\* a handler that calls the backend without having written the user Message
ChatUserMsgSkipped(p) ==
  /\ ch[p].pc = "userMsg"
  /\ ch' = [ch EXCEPT ![p].pc = "waiting", ![p].effects = @ \o <<"backend">>]
  /\ UNCHANGED <<clock, active, callers, rlVars, apiVars, conversations, messages, nextConvId,
                 calls, last>>

\* lines 39-54: the user Message is created, then the backend is invoked
ChatUserMsg(p) ==
  /\ ch[p].pc = "userMsg"
  /\ IF ConversationExists(ch[p].conv)
       THEN /\ messages' = Append(messages, Msg(ch[p].conv, "user", ch[p].message, <<>>))
            /\ ch' = [ch EXCEPT ![p].pc = "waiting", ![p].effects = @ \o <<"user", "backend">>]
            /\ UNCHANGED last
       ELSE /\ Throw(p)
            /\ UNCHANGED messages
  /\ UNCHANGED <<clock, active, callers, rlVars, apiVars, conversations, nextConvId, calls>>

\* a handler without the inner try/catch: the backend error reaches the outer catch
BackendReplyPropagates(p, o) ==
  /\ ch[p].pc = "waiting"
  /\ LET a == BackendData(o)
         row == [content |-> a.content, sources |-> SourcesOrEmpty(a)]
         r == [ch[p] EXCEPT !.backend = Settled(o)]
     IN IF o # "fail" /\ ConversationExists(ch[p].conv) /\ ContentAccepted(row.content)
          THEN /\ messages' = Append(messages, Msg(ch[p].conv, "assistant", row.content,
                                                   row.sources))
               /\ ch' = [ch EXCEPT ![p] = [r EXCEPT !.pc = "touch", !.body = row,
                                                    !.effects = Append(@, "assistant")]]
               /\ UNCHANGED last
          ELSE /\ last' = Response(r, 500, -1)
               /\ ch' = [ch EXCEPT ![p] = IdleReq]
               /\ UNCHANGED messages
  /\ UNCHANGED <<clock, active, callers, rlVars, apiVars, conversations, nextConvId, calls>>

\* an assistant write that the store accepts though the Conversation is gone
BackendReplyUnchecked(p, o) ==
  /\ ch[p].pc = "waiting"
  /\ LET a == AssistantResponse(o)
         row == [content |-> a.content, sources |-> SourcesOrEmpty(a)]
         r == [ch[p] EXCEPT !.backend = Settled(o)]
     IN IF ContentAccepted(row.content)
          THEN /\ messages' = Append(messages, Msg(ch[p].conv, "assistant", row.content,
                                                   row.sources))
               /\ ch' = [ch EXCEPT ![p] = [r EXCEPT !.pc = "touch", !.body = row,
                                                    !.effects = Append(@, "assistant")]]
               /\ UNCHANGED last
          ELSE /\ last' = Response(r, 500, -1)
               /\ ch' = [ch EXCEPT ![p] = IdleReq]
               /\ UNCHANGED messages
  /\ UNCHANGED <<clock, active, callers, rlVars, apiVars, conversations, nextConvId, calls>>

\* lines 51-72: axios.post settles (data, or a throw caught by the fallback) and
\* the assistant Message is created from assistantResponse; a create the store
\* refuses throws to the outer catch
BackendReply(p, o) ==
  /\ ch[p].pc = "waiting"
  /\ LET a == AssistantResponse(o)
         row == [content |-> a.content, sources |-> SourcesOrEmpty(a)]
         r == [ch[p] EXCEPT !.backend = Settled(o)]
     IN IF ConversationExists(ch[p].conv) /\ ContentAccepted(row.content)
          THEN /\ messages' = Append(messages, Msg(ch[p].conv, "assistant", row.content,
                                                   row.sources))
               /\ ch' = [ch EXCEPT ![p] = [r EXCEPT !.pc = "touch", !.body = row,
                                                    !.effects = Append(@, "assistant")]]
               /\ UNCHANGED last
          ELSE /\ last' = Response(r, 500, -1)
               /\ ch' = [ch EXCEPT ![p] = IdleReq]
               /\ UNCHANGED messages
  /\ UNCHANGED <<clock, active, callers, rlVars, apiVars, conversations, nextConvId, calls>>

\* line 76: data: { updatedAt: new Date() } is evaluated when the update is issued.
\* The store round trips and the backend exchange of the request take time: the
\* clock has advanced since the request started.
ChatTouchIssue(p) ==
  /\ ch[p].pc = "touch"
  /\ clock > ch[p].startAt
  /\ ch' = [ch EXCEPT ![p].pc = "touchLand", ![p].touchAt = clock]
  /\ UNCHANGED <<clock, active, callers, rlVars, apiVars, conversations, messages, nextConvId, calls,
                 last>>

\* lines 74-77: the update reaches the store (it throws when the row is gone)
ChatTouchLand(p) ==
  /\ ch[p].pc = "touchLand"
  /\ IF ConversationExists(ch[p].conv)
       THEN /\ conversations' = [conversations EXCEPT ![ch[p].conv].updatedAt = ch[p].touchAt]
            /\ ch' = [ch EXCEPT ![p].pc = "return", ![p].effects = Append(@, "touch")]
            /\ UNCHANGED last
       ELSE /\ Throw(p)
            /\ UNCHANGED conversations
  /\ UNCHANGED <<clock, active, callers, rlVars, apiVars, messages, nextConvId, calls>>

\* lines 79-82: the response { conversationId, message: assistantMessage }
ChatReturn(p) ==
  /\ ch[p].pc = "return"
  /\ last' = Response(ch[p], 200, IF ConversationExists(ch[p].conv)
                                    THEN conversations[ch[p].conv].updatedAt ELSE -1)
  /\ ch' = [ch EXCEPT ![p] = IdleReq]
  /\ UNCHANGED <<clock, active, callers, rlVars, apiVars, conversations, messages, nextConvId, calls>>

\* a DELETE that does not compare the owner
DeleteDecisionNoOwner(s, id) ==
  IF ~HasIdentity(s) THEN 401
  ELSE IF ~ConversationExists(id) THEN 404
  ELSE 0

\* DELETE, lines 47-64: the status the checks answer with (0: go on to delete)
DeleteDecision(s, id) ==
  IF ~HasIdentity(s) THEN 401
  ELSE IF ~ConversationExists(id) THEN 404
  ELSE IF conversations[id].userId # s THEN 403
  ELSE 0

\* DELETE /api/conversations/[id], lines 45-64: session, lookup, ownership
DeleteStart(p, s, id) ==
  /\ FreeSlot(p)
  /\ calls < MaxCalls
  /\ calls' = calls + 1
  /\ LET r == [IdleReq EXCEPT !.op = "delete", !.user = s]
         q == [r EXCEPT !.target = Target(s, id), !.conv = id]
         d == DeleteDecision(s, id)
     IN IF d = 401
          THEN last' = Response(r, 401, -1) /\ UNCHANGED ch
        ELSE IF d # 0
          THEN last' = Response(q, d, -1) /\ UNCHANGED ch
        ELSE ch' = [ch EXCEPT ![p] = [q EXCEPT !.pc = "deleting"]] /\ UNCHANGED last
  /\ UNCHANGED <<clock, active, callers, rlVars, apiVars, conversations, messages, nextConvId>>

\* lines 66-70: prisma.conversation.delete (it throws when the row is gone)
DeleteApply(p) ==
  /\ ch[p].pc = "deleting"
  /\ IF ConversationExists(ch[p].conv)
       THEN /\ conversations' = [conversations EXCEPT ![ch[p].conv] = NoConv]
            /\ messages' = CascadeDelete(messages, ch[p].conv)
            /\ last' = [Response([ch[p] EXCEPT !.effects = <<"delete">>], 200, -1)
                          EXCEPT !.removed = Len(messages) - Len(CascadeDelete(messages, ch[p].conv))]
            /\ ch' = [ch EXCEPT ![p] = IdleReq]
       ELSE /\ Throw(p)
            /\ UNCHANGED <<conversations, messages>>
  /\ UNCHANGED <<clock, active, callers, rlVars, apiVars, nextConvId, calls>>

\* ---- store writes that fail (connection lost, statement timeout): the awaited
\* ---- prisma call rejects and the outer catch of lines 83-89 answers 500
\* lines 39-45: prisma.message.create of the user Message rejects
UserMsgFails(p) ==
  /\ ch[p].pc = "userMsg"
  /\ Throw(p)
  /\ UNCHANGED <<clock, active, callers, rlVars, apiVars, conversations, messages, nextConvId,
                 calls>>

\* lines 51-72: axios.post has settled, prisma.message.create of the assistant
\* Message rejects
AssistantMsgFails(p, o) ==
  /\ ch[p].pc = "waiting"
  /\ last' = Response([ch[p] EXCEPT !.backend = Settled(o)], 500, -1)
  /\ ch' = [ch EXCEPT ![p] = IdleReq]
  /\ UNCHANGED <<clock, active, callers, rlVars, apiVars, conversations, messages, nextConvId,
                 calls>>

\* lines 74-77: prisma.conversation.update rejects
TouchFails(p) ==
  /\ ch[p].pc = "touchLand"
  /\ Throw(p)
  /\ UNCHANGED <<clock, active, callers, rlVars, apiVars, conversations, messages, nextConvId,
                 calls>>

\* ------------------------------------------- upload, profile and password
NoFile == ""                             \* formData.get("file") gave nothing
FileNames == {"a.pdf"}
NoPassword == <<>>                       \* a user row without a password
Passwords == {"pw1", "pw2"}
Names == {"Ann", "Bob"}

\* bcryptjs: hash(password, 12) and compare(password, hash)
Hash(pw) == <<"bcrypt", pw>>
Compare(pw, h) == h = Hash(pw)

\* would checkRateLimit(e), called now for the session s, return false
Limited(s, e) == HasIdentity(s) /\ Branch(rateLimits[<<s, e>>], clock) = "deny"

ApiCall(op, s) == [IdleReq EXCEPT !.op = op, !.user = s, !.limited = Limited(s, op)]

\* POST /api/upload, src/unnamed/part_003 lines 9-71
Upload(s, f, o) ==
  /\ Len(documents) < MaxDocs
  /\ LET r == ApiCall("upload", s)
         filename == <<clock, f>>       \* `${Date.now()}-${file.name}`
     IN IF ~HasIdentity(s)
          THEN last' = Response(r, 401, -1) /\ UNCHANGED <<documents, files>>
        ELSE IF f = NoFile
          THEN last' = Response(r, 400, -1) /\ UNCHANGED <<documents, files>>
        ELSE /\ files' = files \cup {filename}
             /\ documents' = Append(documents,
                                    [userId |-> s, filename |-> filename, originalName |-> f,
                                     status |-> "processing"])
             /\ last' = Response([r EXCEPT !.effects = <<"file", "document", "backend">>,
                                           !.backend = IF o = "fail" THEN "failed" ELSE "ok"],
                                 200, -1)
  /\ UNCHANGED <<clock, active, callers, rlVars, conversations, messages, nextConvId, calls,
                 ch, userRows>>

\* PUT /api/user/profile, src/app/api/user/profile/route.ts lines 6-33
ProfilePut(s, name) ==
  /\ LET r == ApiCall("profile", s)
     IN IF ~HasIdentity(s)
          THEN last' = Response(r, 401, -1) /\ UNCHANGED userRows
        ELSE IF name = ""
          THEN last' = Response(r, 400, -1) /\ UNCHANGED userRows
        ELSE /\ userRows' = [userRows EXCEPT ![s].name = name]
             /\ last' = Response([r EXCEPT !.effects = <<"user">>], 200, -1)
  /\ UNCHANGED <<clock, active, callers, rlVars, conversations, messages, nextConvId, calls,
                 ch, documents, files>>

\* PUT /api/user/password, src/unnamed/part_005 lines 7-56
PasswordPut(s, currentPassword, newPassword) ==
  /\ LET r == ApiCall("password", s)
     IN IF ~HasIdentity(s)
          THEN last' = Response(r, 401, -1) /\ UNCHANGED userRows
        ELSE IF currentPassword = "" \/ newPassword = ""
          THEN last' = Response(r, 400, -1) /\ UNCHANGED userRows
        ELSE IF userRows[s].password = NoPassword
          THEN last' = Response(r, 404, -1) /\ UNCHANGED userRows
        ELSE IF ~Compare(currentPassword, userRows[s].password)
          THEN last' = Response(r, 400, -1) /\ UNCHANGED userRows
        ELSE /\ userRows' = [userRows EXCEPT ![s].password = Hash(newPassword)]
             /\ last' = Response([r EXCEPT !.effects = <<"user">>], 200, -1)
  /\ UNCHANGED <<clock, active, callers, rlVars, conversations, messages, nextConvId, calls,
                 ch, documents, files>>


InitStore ==
  /\ clock = 0
  /\ rateLimits = [k \in Keys |-> NoRow]
  /\ rl = [p \in Procs |-> IdleCall]
  /\ admitLog = [k \in Keys |-> [t \in Times |-> 0]]
  /\ conversations = [c \in ConvIds |-> NoConv]
  /\ messages = <<>>
  /\ nextConvId = 1
  /\ calls = 0
  /\ ch = [p \in Procs |-> IdleReq]
  /\ last = NoLast
  /\ documents = <<>>
  /\ files = {}
  /\ userRows = [u \in Users |-> [name |-> u,
                                   password |-> IF u = "u1" THEN Hash("pw1") ELSE NoPassword]]

InitSeq == InitStore /\ active = {1} /\ callers = Users \X {"chat"}
InitConc == InitStore /\ active = Procs /\ callers = {<<"u1", "chat">>}

NextRL ==
  \/ Tick
  \/ \E p \in Procs, s \in Sessions, e \in Endpoints : RlStart(p, s, e)
  \/ \E p \in Procs : RlFind(p)
  \/ \E p \in Procs : RlWrite(p)

\* the workload of the HTTP handlers: "u1" has used up the allowance of every
\* endpoint in the window opened at time 0 (MAX_REQUESTS admitted calls each),
\* "u2" has no counter yet; the conversation ids below MaxConvs were used by
\* Conversations deleted since, one id is left to allocate
InitHttp ==
  /\ clock = 0
  /\ active = Procs
  /\ callers = {}
  /\ rateLimits = [k \in Keys |-> IF k[1] = "u1" THEN Row(MAX_REQUESTS, 0) ELSE NoRow]
  /\ rl = [p \in Procs |-> IdleCall]
  /\ admitLog = [k \in Keys |-> [t \in Times |-> IF k[1] = "u1" /\ t = 0
                                                   THEN MAX_REQUESTS ELSE 0]]
  /\ conversations = [c \in ConvIds |-> NoConv]
  /\ messages = <<>>
  /\ nextConvId = MaxConvs
  /\ calls = 0
  /\ ch = [p \in Procs |-> IdleReq]
  /\ last = NoLast
  /\ documents = <<>>
  /\ files = {}
  /\ userRows = [u \in Users |-> [name |-> u,
                                   password |-> IF u = "u1" THEN Hash("pw1") ELSE NoPassword]]

NextChat ==
  \/ Tick
  \/ \E p \in Procs, s \in Sessions, cid \in {NoId} \cup ConvIds, m \in Bodies : ChatStart(p, s, cid, m)
  \/ \E p \in Procs : ChatUserMsg(p)
  \/ \E p \in Procs, o \in BackendOutcomes : BackendReply(p, o)
  \/ \E p \in Procs : ChatTouchIssue(p)
  \/ \E p \in Procs : ChatTouchLand(p)
  \/ \E p \in Procs : ChatReturn(p)
  \/ \E p \in Procs, s \in Sessions, id \in ConvIds : DeleteStart(p, s, id)
  \/ \E p \in Procs : DeleteApply(p)

\* concurrent chat and delete requests over one store
SpecChat == InitHttp /\ [][NextChat]_vars

NextApi ==
  \/ Tick
  \/ \E s \in Sessions, f \in FileNames \cup {NoFile}, o \in BackendOutcomes : Upload(s, f, o)
  \/ \E s \in Sessions, name \in Names \cup {""} : ProfilePut(s, name)
  \/ \E s \in Sessions, cur \in Passwords \cup {""}, new \in Passwords \cup {""} :
       PasswordPut(s, cur, new)

\* upload, profile and password requests over one store
SpecApi == InitHttp /\ [][NextApi]_vars

\* chat requests handled one at a time, on a store with no Conversation yet
InitTurn == InitStore /\ active = {1} /\ callers = {}

NextTurn ==
  \/ Tick
  \/ \E p \in Procs, s \in Sessions, cid \in {NoId} \cup ConvIds, m \in LongBodies :
       ChatStart(p, s, cid, m)
  \/ \E p \in Procs : ChatUserMsg(p)
  \/ \E p \in Procs, o \in PayloadOutcomes : BackendReply(p, o)
  \/ \E p \in Procs : ChatTouchIssue(p)
  \/ \E p \in Procs : ChatTouchLand(p)
  \/ \E p \in Procs : ChatReturn(p)
  \/ \E p \in Procs : UserMsgFails(p)
  \/ \E p \in Procs, o \in PayloadOutcomes : AssistantMsgFails(p, o)
  \/ \E p \in Procs : TouchFails(p)

\* one chat request at a time, with long messages, malformed backend answers and
\* failing store writes
SpecTurn == InitTurn /\ [][NextTurn]_vars

\* the steps of the handlers themselves: a store call that was issued is
\* answered, the runtime resumes the handler, the clock goes on.  The backend
\* is another system: nothing makes it answer.
HandlerStep(p) ==
  \/ ChatUserMsg(p)
  \/ ChatTouchIssue(p)
  \/ ChatTouchLand(p)
  \/ ChatReturn(p)
  \/ DeleteApply(p)

\* chat and delete requests one at a time, with fair handlers
SpecChatLive ==
  /\ InitTurn
  /\ [][NextChat]_vars
  /\ WF_vars(Tick)
  /\ \A p \in Procs : WF_vars(HandlerStep(p))

\* concurrent calls for one key whose counter dates from before the explored
\* horizon: its window is found expired at more than one instant
InitAged ==
  /\ clock = 0
  /\ active = Procs
  /\ callers = {<<"u1", "chat">>}
  /\ rateLimits = [k \in Keys |-> IF k = <<"u1", "chat">> THEN Row(1, -1) ELSE NoRow]
  /\ rl = [p \in Procs |-> IdleCall]
  /\ admitLog = [k \in Keys |-> [t \in Times |-> 0]]
  /\ conversations = [c \in ConvIds |-> NoConv]
  /\ messages = <<>>
  /\ nextConvId = 1
  /\ calls = 0
  /\ ch = [p \in Procs |-> IdleReq]
  /\ last = NoLast
  /\ documents = <<>>
  /\ files = {}
  /\ userRows = [u \in Users |-> [name |-> u,
                                   password |-> IF u = "u1" THEN Hash("pw1") ELSE NoPassword]]

SpecRLAged == InitAged /\ [][NextRL]_vars

\* calls one at a time for two endpoints of one user and for a second user, on a
\* store that holds a Conversation with one turn
InitFrame ==
  /\ clock = 0
  /\ active = {1}
  /\ callers = {<<"u1", "chat">>, <<"u1", "upload">>, <<"u2", "chat">>}
  /\ rateLimits = [k \in Keys |-> NoRow]
  /\ rl = [p \in Procs |-> IdleCall]
  /\ admitLog = [k \in Keys |-> [t \in Times |-> 0]]
  /\ conversations = [c \in ConvIds |->
                        IF c = 1 THEN [exists |-> TRUE, userId |-> "u1",
                                       title |-> Title(<<"h", "i">>), updatedAt |-> 0]
                        ELSE NoConv]
  /\ messages = <<Msg(1, "user", <<"h", "i">>, <<>>), Msg(1, "assistant", APOLOGY, <<>>)>>
  /\ nextConvId = 2
  /\ calls = 0
  /\ ch = [p \in Procs |-> IdleReq]
  /\ last = NoLast
  /\ documents = <<>>
  /\ files = {}
  /\ userRows = [u \in Users |-> [name |-> u,
                                   password |-> IF u = "u1" THEN Hash("pw1") ELSE NoPassword]]

SpecRLFrame == InitFrame /\ [][NextRL]_vars

\* checkRateLimit calls executed one at a time
SpecRLSeq == InitSeq /\ [][NextRL]_vars
\* checkRateLimit calls of concurrent requests, interleaved at their awaits
SpecRLConc == InitConc /\ [][NextRL]_vars


\* ================================================================== claims
\* number of admitted calls of key k whose `now` lies in a .. b
RECURSIVE AdmitsBetween(_, _, _)
AdmitsBetween(k, a, b) ==
  IF a > b THEN 0
  ELSE (IF a \in Times THEN admitLog[k][a] ELSE 0) + AdmitsBetween(k, a + 1, b)

KeyOf(p) == <<rl[p].userId, rl[p].endpoint>>
Returned(p) == rl[p].pc = "done" /\ HasIdentity(rl[p].userId)

\* C1: with calls executed one at a time, for every (subject, endpoint) at most
\* MAX_REQUESTS calls return true from the opening of a window (count = 1,
\* windowStart) up to RATE_LIMIT_WINDOW after that windowStart.
C1_AtMostMaxPerWindow ==
  \A k \in Keys :
    rateLimits[k].present =>
      /\ AdmitsBetween(k, rateLimits[k].windowStart,
                       rateLimits[k].windowStart + RATE_LIMIT_WINDOW) <= MAX_REQUESTS
      /\ rateLimits[k].count <= MAX_REQUESTS

\* a window that admitted MAX_REQUESTS calls and then turned one away
C1_Witness ==
  \E p \in Procs :
    /\ Returned(p) /\ rl[p].result = "false"
    /\ rateLimits[KeyOf(p)].present
    /\ AdmitsBetween(KeyOf(p), rateLimits[KeyOf(p)].windowStart,
                     rateLimits[KeyOf(p)].windowStart + RATE_LIMIT_WINDOW) = MAX_REQUESTS

\* C2: under any interleaving of concurrent calls for one (subject, endpoint),
\* the stored count never exceeds MAX_REQUESTS in a window and no more than
\* MAX_REQUESTS calls are admitted in it.
C2_NoOvershoot ==
  \A k \in Keys :
    rateLimits[k].present =>
      /\ rateLimits[k].count <= MAX_REQUESTS
      /\ AdmitsBetween(k, rateLimits[k].windowStart,
                       rateLimits[k].windowStart + RATE_LIMIT_WINDOW) <= MAX_REQUESTS

\* C6 as claimed: a call that finds a counter with now - windowStart >=
\* RATE_LIMIT_WINDOW (the boundary included) is admitted and leaves count = 1,
\* windowStart = now.
C6_ExpiredResetsInclusive ==
  \A p \in Procs :
    (Returned(p) /\ rl[p].row.present
       /\ rl[p].now - rl[p].row.windowStart >= RATE_LIMIT_WINDOW)
    => /\ rl[p].result = "true"
       /\ rateLimits[KeyOf(p)] = Row(1, rl[p].now)

\* C6: a call that finds a counter with now - windowStart > RATE_LIMIT_WINDOW is
\* admitted, whatever the count, and leaves count = 1, windowStart = now; at
\* exactly RATE_LIMIT_WINDOW the window is still the active one: the call is
\* counted in it, or denied without a write when count >= MAX_REQUESTS.
C6_ExpiredResets ==
  \A p \in Procs :
    (Returned(p) /\ rl[p].row.present) =>
      LET elapsed == rl[p].now - rl[p].row.windowStart
          row == rl[p].row
      IN /\ elapsed > RATE_LIMIT_WINDOW =>
              /\ rl[p].result = "true"
              /\ rateLimits[KeyOf(p)] = Row(1, rl[p].now)
         /\ (elapsed = RATE_LIMIT_WINDOW /\ row.count >= MAX_REQUESTS) =>
              /\ rl[p].result = "false"
              /\ rateLimits[KeyOf(p)] = row
         /\ (elapsed = RATE_LIMIT_WINDOW /\ row.count < MAX_REQUESTS) =>
              /\ rl[p].result = "true"
              /\ rateLimits[KeyOf(p)] = Row(row.count + 1, row.windowStart)

\* a full window, found expired, was reset by an admitted call
C6_Witness ==
  \E p \in Procs :
    /\ Returned(p) /\ rl[p].row.present /\ rl[p].row.count >= MAX_REQUESTS
    /\ rl[p].now - rl[p].row.windowStart > RATE_LIMIT_WINDOW
    /\ rl[p].result = "true"
    /\ rateLimits[KeyOf(p)] = Row(1, rl[p].now)

\* C7: a call without an authenticated identity returns false, for every
\* endpoint and whatever the counters hold, and makes no store call: it reads
\* no counter and the counters are the same after it.
C7_UnauthenticatedDenied ==
  [][ \A p \in Procs :
        (rl'[p] # rl[p] /\ rl'[p].pc = "done" /\ ~HasIdentity(rl'[p].userId))
        => /\ rl'[p].result = "false"
           /\ rl'[p].reads = 0 /\ rl'[p].writes = 0
           /\ rateLimits' = rateLimits ]_vars

\* an unauthenticated call was turned away while counters exist
C7_Witness ==
  \E p \in Procs :
    /\ rl[p].pc = "done" /\ ~HasIdentity(rl[p].userId) /\ rl[p].result = "false"
    /\ rl[p].endpoint = "upload"
    /\ \E k \in Keys : rateLimits[k].present

\* ------------------------------------------------------------ chat claims
Count(s, x) == Cardinality({i \in 1 .. Len(s) : s[i] = x})
Pos(s, x) == CHOOSE i \in 1 .. Len(s) : s[i] = x
Has(s, x) == \E i \in 1 .. Len(s) : s[i] = x

\* C3: a chat request that the limiter denies for (userId, "chat") is answered
\* RateLimited (429) and does nothing else: no Conversation, no Message, no
\* backend call, no updatedAt change.
C3_DeniedChatRejected ==
  /\ \A p \in Procs : (ch[p].op = "chat" /\ ch[p].limited) => ch[p].pc = "idle"
  /\ (last.op = "chat" /\ last.limited) => (last.status = 429 /\ last.effects = <<>>)

\* C4: a chat request answered with success appended exactly one user Message
\* and one assistant Message, in that order, and the Conversation's updatedAt
\* when the response is sent is greater than it was when the request came in.
C4_TurnAppendedAndTouched ==
  (last.op = "chat" /\ last.status = 200) =>
    /\ Count(last.effects, "user") = 1
    /\ Count(last.effects, "assistant") = 1
    /\ Pos(last.effects, "user") < Pos(last.effects, "assistant")
    /\ (last.before >= 0 /\ last.after >= 0) => last.after > last.before

\* C5: when the backend call fails, the request goes on: the assistant Message
\* written and returned is the apology with no sources, the turn's two Messages
\* are in the store, and the response is a success; an error response is only
\* the store's refusal of a write to a Conversation deleted meanwhile.
C5_BackendFailureAbsorbed ==
  /\ \A p \in Procs :
       ch[p].backend = "failed" =>
         /\ ch[p].pc \in {"touch", "touchLand", "return"}
         /\ ch[p].body = [content |-> APOLOGY, sources |-> <<>>]
         /\ ConversationExists(ch[p].conv) =>
              \E i, j \in 1 .. Len(messages) :
                /\ i < j
                /\ messages[i].role = "user" /\ messages[j].role = "assistant"
                /\ messages[i] = Msg(ch[p].conv, "user", ch[p].message, <<>>)
                /\ messages[j] = Msg(ch[p].conv, "assistant", APOLOGY, <<>>)
  /\ (last.op = "chat" /\ last.backend = "failed") =>
       /\ last.status \in {200, 500}
       /\ last.status = 200 =>
            /\ last.body = [content |-> APOLOGY, sources |-> <<>>]
            /\ Has(last.effects, "user") /\ Has(last.effects, "assistant")
       /\ last.status = 500 => ~ConversationExists(last.conv)

\* a request whose backend call failed was answered 200 with the apology
C5_Witness ==
  /\ last.op = "chat" /\ last.backend = "failed" /\ last.status = 200
  /\ last.body.content = APOLOGY /\ last.body.sources = <<>>

\* C8 as claimed: a conversationId naming no Conversation is answered NotFound
\* (404), one naming another user's Conversation Forbidden (403), both without
\* any effect.
C8_NotFoundOrForbidden ==
  (last.op = "chat" /\ last.status # 400) =>
    /\ last.target = "missing" => (last.status = 404 /\ last.effects = <<>>)
    /\ last.target = "foreign" => (last.status = 403 /\ last.effects = <<>>)

\* C8: a conversationId naming no Conversation, or another user's Conversation,
\* is answered Forbidden (403) in both cases, and the request has no effect.
C8_ForbiddenBoth ==
  /\ \A p \in Procs : ch[p].op = "chat" => ch[p].target \in {"own", "new"}
  /\ (last.op = "chat" /\ last.status # 400) =>
       /\ last.target \in {"missing", "foreign"} => (last.status = 403 /\ last.effects = <<>>)
       /\ last.status = 403 => last.target \in {"missing", "foreign"}

\* a request naming a Conversation that does not exist was answered 403
C8_Witness ==
  /\ last.op = "chat" /\ last.status = 403 /\ last.target = "missing"
  /\ last.effects = <<>>

\* C9: a DELETE by the owner removes the Conversation and every Message of it;
\* a DELETE by another user is answered Forbidden and one of an id that names
\* nothing NotFound, and both leave Conversations and Messages as they were.
C9_DeleteCascades ==
  /\ [](last.op = "delete" =>
          /\ last.status = 403 <=> last.target = "foreign"
          /\ last.status = 404 <=> last.target = "missing"
          /\ last.status \in {200, 500} <=> last.target = "own"
          /\ last.target = "own" =>
               /\ ~ConversationExists(last.conv)
               /\ \A i \in 1 .. Len(messages) : messages[i].conversationId # last.conv)
  /\ [][ (last' # last /\ last'.op = "delete" /\ last'.status \in {403, 404})
         => (conversations' = conversations /\ messages' = messages) ]_vars

\* the owner deleted a Conversation that held Messages
C9_Witness ==
  /\ last.op = "delete" /\ last.status = 200 /\ last.target = "own"
  /\ ~ConversationExists(last.conv)
  /\ last.removed >= 2
  /\ \A i \in 1 .. Len(messages) : messages[i].conversationId # last.conv

\* -------------------------------------------------- mutating endpoints
\* C10: a mutating endpoint writes to the store only after admit(userId,
\* endpointName) was called for the request and returned true (which leaves a
\* counter for that key); a request whose admission is denied writes nothing.
C10_WritesOnlyAfterAdmit ==
  (last.op \in {"upload", "profile", "password"} /\ last.effects # <<>>) =>
    /\ rateLimits[<<last.user, last.op>>].present
    /\ ~last.limited

\* ------------------------------------------------- rate limiter, continued
\* C13: in every reachable state, with concurrent calls for one (subject,
\* endpoint), the stored count equals the number of calls admitted since the
\* stored windowStart (two calls that both find the window expired, or both
\* find no counter, do not leave count = 1 after two admissions).
C13_CountMatchesAdmitted ==
  \A k \in Keys :
    rateLimits[k].present =>
      rateLimits[k].count = AdmitsBetween(k, rateLimits[k].windowStart, MaxTime)

\* C14: a call denied because the window is active and count >= MAX_REQUESTS
\* makes no write: count and windowStart are after the call what they were
\* before it, however often the denial is repeated.
C14_DenialLeavesCounter ==
  /\ [](\A p \in Procs :
          (Returned(p) /\ rl[p].result = "false") =>
            /\ rl[p].row.present
            /\ rl[p].row.count >= MAX_REQUESTS
            /\ rl[p].now - rl[p].row.windowStart <= RATE_LIMIT_WINDOW
            /\ rl[p].writes = 0
            /\ rateLimits[KeyOf(p)] = rl[p].row)
  /\ [][ \A p \in Procs :
           (rl'[p] # rl[p] /\ rl'[p].pc = "done" /\ rl'[p].result = "false")
           => rateLimits' = rateLimits ]_vars

\* a call was denied at the last instant of a full window, after an earlier
\* instant of it: the counter still carries the original windowStart
C14_Witness ==
  \E p \in Procs :
    /\ Returned(p) /\ rl[p].result = "false"
    /\ rl[p].now = rl[p].row.windowStart + RATE_LIMIT_WINDOW
    /\ rateLimits[KeyOf(p)] = Row(MAX_REQUESTS, rl[p].now - RATE_LIMIT_WINDOW)

\* C22: for every counter, windowStart never decreases from one state to the
\* next, and it changes only by a call that found the window fully elapsed (a
\* counter appears only by a call that found none); an increment or a denial
\* leaves windowStart as it is.
C22_WindowStartForward ==
  [][ \A k \in Keys :
        /\ rateLimits[k].present =>
             /\ rateLimits'[k].present
             /\ rateLimits'[k].windowStart >= rateLimits[k].windowStart
             /\ rateLimits'[k].windowStart # rateLimits[k].windowStart =>
                  \E p \in Procs :
                    /\ rl[p].pc = "write" /\ rl'[p].pc = "done" /\ KeyOf(p) = k
                    /\ rl[p].branch = "reset"
                    /\ rl[p].now - rl[p].row.windowStart > RATE_LIMIT_WINDOW
        /\ (~rateLimits[k].present /\ rateLimits'[k].present) =>
             \E p \in Procs :
               /\ rl[p].pc = "write" /\ rl'[p].pc = "done" /\ KeyOf(p) = k
               /\ rl[p].branch = "create" ]_vars

\* C23: with calls executed one at a time for one (subject, endpoint), the
\* number of admitted calls inside any time interval of length
\* RATE_LIMIT_WINDOW, wherever it starts, is at most 2 * MAX_REQUESTS: the
\* interval overlaps at most two windows of the counter.
C23_BurstBounded ==
  \A k \in Keys : \A a \in Times :
    AdmitsBetween(k, a, a + RATE_LIMIT_WINDOW) <= 2 * MAX_REQUESTS

\* the burst at a window boundary: an interval of length RATE_LIMIT_WINDOW that
\* starts inside one window and ends in the next one holds more admitted calls
\* than one window allows
C23_Witness ==
  \E k \in Keys : \E a \in Times :
    /\ rateLimits[k].present
    /\ a < rateLimits[k].windowStart
    /\ rateLimits[k].windowStart <= a + RATE_LIMIT_WINDOW
    /\ AdmitsBetween(k, a, a + RATE_LIMIT_WINDOW) > MAX_REQUESTS
    /\ AdmitsBetween(k, a, rateLimits[k].windowStart - 1) > 0

\* ------------------------------------------------------ chat turn claims
\* C11: every chat request that has invoked the backend eventually gets its
\* response, even if the backend never answers: the wait for the backend is
\* bounded.  (Requests that start at the last instant of the explored horizon
\* are left out: the clock cannot advance for them.)
C11_EveryCallReturns ==
  \A p \in Procs :
    (ch[p].pc = "waiting" /\ ch[p].startAt < MaxTime) ~> (ch[p].pc = "idle")

\* t is the first TITLE_LEN characters of m, the whole of m when it is shorter
IsTitleOf(t, m) ==
  /\ Len(t) = (IF Len(m) <= TITLE_LEN THEN Len(m) ELSE TITLE_LEN)
  /\ \A i \in 1 .. Len(t) : t[i] = m[i]

Existing == {c \in ConvIds : conversations[c].exists}

\* C12: a chat request without conversationId by user U with content c creates
\* exactly one Conversation, with userId = U and title = the first TITLE_LEN
\* characters of c (all of c when shorter, never more than TITLE_LEN); no other
\* step creates a Conversation; the response names that Conversation.
C12_NewConversationTitled ==
  /\ [](/\ \A p \in Procs :
             (ch[p].pc # "idle" /\ ch[p].target = "new") =>
               /\ ch[p].conv \in Existing
               /\ conversations[ch[p].conv].userId = ch[p].user
               /\ IsTitleOf(conversations[ch[p].conv].title, ch[p].message)
               /\ Len(conversations[ch[p].conv].title) <= TITLE_LEN
        /\ (last.op = "chat" /\ last.status = 200 /\ last.target = "new") =>
             /\ last.conv \in Existing
             /\ conversations[last.conv].userId = last.user
             /\ Len(conversations[last.conv].title) <= TITLE_LEN)
  /\ [][ /\ \A p \in Procs :
              (ch[p].pc = "idle" /\ ch'[p].pc # "idle" /\ ch'[p].target = "new") =>
                /\ Existing' = Existing \cup {ch'[p].conv}
                /\ ch'[p].conv \notin Existing
                /\ \A c \in Existing : conversations'[c] = conversations[c]
         /\ Existing' # Existing =>
              \E p \in Procs : ch[p].pc = "idle" /\ ch'[p].pc # "idle" /\ ch'[p].target = "new"
         /\ \A p \in Procs :
              (ch[p].pc = "return" /\ ch'[p].pc = "idle") =>
                (last'.status = 200 /\ last'.conv = ch[p].conv /\ last'.user = ch[p].user) ]_vars

\* a request with a message longer than TITLE_LEN opened a second Conversation,
\* titled with exactly TITLE_LEN characters, and was answered with its id
C12_Witness ==
  /\ last.op = "chat" /\ last.status = 200 /\ last.target = "new"
  /\ last.conv \in Existing
  /\ Cardinality(Existing) = 2
  /\ Len(conversations[last.conv].title) = TITLE_LEN
  /\ \E i \in 1 .. Len(messages) :
       /\ messages[i].conversationId = last.conv
       /\ messages[i].role = "user"
       /\ Len(messages[i].content) > TITLE_LEN

IsPrefix(s, t) == Len(s) <= Len(t) /\ \A i \in 1 .. Len(s) : s[i] = t[i]

\* the store holds a user Message of Conversation c with content m
HoldsUserMsg(c, m) ==
  \E i \in 1 .. Len(messages) :
    /\ messages[i].role = "user"
    /\ messages[i].conversationId = c
    /\ messages[i].content = m

\* C15: within a chat request the backend is invoked only after the user Message
\* has been written: whenever the backend has been invoked for a turn, the
\* turn's user Message is in the store, and no later step of the request, after
\* a backend answer or a backend failure, removes or changes it.
C15_UserMessageBeforeBackend ==
  /\ [](/\ \A p \in Procs :
             Has(ch[p].effects, "backend") =>
               /\ Has(ch[p].effects, "user")
               /\ Pos(ch[p].effects, "user") < Pos(ch[p].effects, "backend")
               /\ HoldsUserMsg(ch[p].conv, ch[p].message)
        /\ (last.op = "chat" /\ Has(last.effects, "backend")) =>
             /\ Has(last.effects, "user")
             /\ Pos(last.effects, "user") < Pos(last.effects, "backend")
             /\ \E i \in 1 .. Len(messages) :
                  messages[i].role = "user" /\ messages[i].conversationId = last.conv)
  /\ [][ /\ IsPrefix(messages, messages')
         /\ \A p \in Procs :
              (~Has(ch[p].effects, "backend") /\ Has(ch'[p].effects, "backend")) =>
                messages' = Append(messages, Msg(ch[p].conv, "user", ch[p].message, <<>>)) ]_vars

\* the backend failed and then the assistant write failed: the request ended
\* with 500 and its user Message is the last Message of the store
C15_Witness ==
  /\ last.op = "chat" /\ last.status = 500 /\ last.backend = "failed"
  /\ Has(last.effects, "backend")
  /\ Len(messages) > 0
  /\ messages[Len(messages)].role = "user"
  /\ messages[Len(messages)].conversationId = last.conv

\* C16: a backend answer with a success status and a malformed payload (no
\* content field) is treated like a backend failure: the request is answered
\* with success, the apology and no sources, and the assistant Message is
\* persisted.
C16_MalformedAbsorbed ==
  (last.op = "chat" /\ last.backend = "malformed") =>
    /\ last.status = 200
    /\ last.body = [content |-> APOLOGY, sources |-> <<>>]
    /\ Has(last.effects, "assistant")

\* number of Messages of Conversation c with the given role
Stored(c, role) ==
  Cardinality({i \in 1 .. Len(messages) :
                 messages[i].conversationId = c /\ messages[i].role = role})

\* C17: a store write that fails during a chat request (user Message, assistant
\* Message or updatedAt) never leaves half a turn: once the call has ended, the
\* store holds the turn's user Message if and only if it holds its assistant
\* Message.
C17_NoHalfTurn ==
  /\ last.op = "chat" => (Has(last.effects, "user") <=> Has(last.effects, "assistant"))
  /\ (\A p \in Procs : ch[p].pc = "idle") =>
       \A c \in ConvIds : Stored(c, "user") = Stored(c, "assistant")

\* C18: a chat request answered Unauthenticated (401, no session user) or
\* ValidationError (400, empty message) ends at once and persists nothing: no
\* Conversation is created, no Message written, no updatedAt changed, and the
\* backend is not invoked; only requests with a user and a message go on.
C18_RejectedWithoutEffect ==
  /\ [](/\ (last.op = "chat" /\ last.status \in {400, 401}) =>
             /\ last.effects = <<>>
             /\ last.backend = "none"
             /\ last.status = 401 <=> ~HasIdentity(last.user)
        /\ \A p \in Procs :
             ch[p].op = "chat" => (HasIdentity(ch[p].user) /\ ch[p].message # <<>>))
  /\ [][ (calls' # calls /\ ch' = ch /\ last'.op = "chat" /\ last'.status \in {400, 401})
         => /\ conversations' = conversations
            /\ messages' = messages
            /\ nextConvId' = nextConvId ]_vars

\* a request with an empty message was turned away with 400 while another
\* request was waiting for the backend on a Conversation holding a Message
C18_Witness ==
  /\ last.op = "chat" /\ last.status = 400 /\ last.effects = <<>>
  /\ HasIdentity(last.user)
  /\ Len(messages) > 0
  /\ \E p \in Procs : ch[p].pc = "waiting"

\* the roles of the Messages of Conversation c, in creation order
RECURSIVE RolesOf(_, _)
RolesOf(msgs, c) ==
  IF msgs = <<>> THEN <<>>
  ELSE IF Head(msgs).conversationId = c
         THEN <<Head(msgs).role>> \o RolesOf(Tail(msgs), c)
         ELSE RolesOf(Tail(msgs), c)

\* C19: in every reachable state, concurrent requests of one user on one
\* Conversation included, the Messages of a Conversation in creation order
\* alternate user, assistant, starting with user: no assistant Message without
\* the user Message of its turn right before it.
C19_Alternating ==
  \A c \in ConvIds :
    LET roles == RolesOf(messages, c)
    IN \A i \in 1 .. Len(roles) :
         roles[i] = (IF i % 2 = 1 THEN "user" ELSE "assistant")

\* C20: for every Conversation, across any interleaving of chat requests, userId
\* never changes after creation, updatedAt never decreases from one state to the
\* next, and updatedAt is written once per completed turn.
C20_OwnerFixedTimeMonotone ==
  /\ [][ \A c \in ConvIds :
           (conversations[c].exists /\ conversations'[c].exists) =>
             /\ conversations'[c].userId = conversations[c].userId
             /\ conversations'[c].updatedAt >= conversations[c].updatedAt ]_vars
  /\ []((last.op = "chat" /\ last.status = 200) => Count(last.effects, "touch") = 1)

C24_OnlyOwnCounter ==
  /\ [][ \A p \in Procs :
           rl'[p] # rl[p] =>
             /\ \A k \in Keys :
                  k # <<rl'[p].userId, rl'[p].endpoint>> => rateLimits'[k] = rateLimits[k]
             /\ conversations' = conversations
             /\ messages' = messages
             /\ rl[p].pc = "find" =>
                  (rl'[p].reads = 1 /\ rl'[p].row = rateLimits[KeyOf(p)]) ]_vars
  /\ [](\A p \in Procs :
          (Returned(p) /\ rl[p].result = "false") =>
            /\ rateLimits[KeyOf(p)].present
            /\ rateLimits[KeyOf(p)].count >= MAX_REQUESTS)

\* with the counter of ("u1", "chat") exhausted in its window, a call of the
\* same user for "upload" was admitted, and "u2" has a counter for "chat" too
C24_Witness ==
  /\ rateLimits[<<"u1", "chat">>].present
  /\ rateLimits[<<"u1", "chat">>].count >= MAX_REQUESTS
  /\ rateLimits[<<"u2", "chat">>].present
  /\ \E p \in Procs :
       /\ Returned(p) /\ rl[p].result = "true"
       /\ KeyOf(p) = <<"u1", "upload">>
       /\ rl[p].row.present
       /\ rl[p].now >= rateLimits[<<"u1", "chat">>].windowStart
       /\ rl[p].now - rateLimits[<<"u1", "chat">>].windowStart <= RATE_LIMIT_WINDOW
  /\ Len(messages) = 2

=============================================================================
